---- MODULE Spec2Model ----
(***************************************************************************)
(* PyHook pipeline runtime (src/PyHook/pipeline.py): the persisted         *)
(* configuration (save_settings / load_settings), Pipeline.process_frame   *)
(* with its shape check, and Pipeline.change_settings with its hooks.      *)
(*                                                                         *)
(* Python values are records [t, h]: t is the Python type ("bool", "int",  *)
(* "float") and h the value counted in halves (h = 5 is 2.5, h = 2 is 1),  *)
(* so that int() truncation and bool() are computed, not assumed.          *)
(* List objects live in the heap `lists` (reference -> sequence): two      *)
(* fields of PipelineRuntimeData that hold the same Python list hold the   *)
(* same reference.                                                         *)
(***************************************************************************)
EXTENDS Integers, Sequences, FiniteSets, TLC

VARIABLES
    pipelines,   \* Dict[str, Pipeline]: [keys: insertion order, tab: key -> Pipeline]
    file,        \* the pyhook.json file of dir_path
    runtime,     \* PipelineRuntimeData returned by the last load_settings (references)
    lists,       \* heap of the list objects the runtime data refers to
    result,      \* how the last load_settings ended
    saved,       \* arguments and setting values of the last save_settings
    lastOps,     \* the last two operations on the settings file
    frameIn,     \* the frame to process, the active chain, what each callback does
    frameRes,    \* how the processing of the frame ended
    lastChange,  \* the arguments of the last change_settings call
    events,      \* what happened during the last change_settings call, in order
    codec,       \* a declared default with its tooltip, its type code, its decoding
    loader,      \* the pipeline directories on disk and what load_pipelines did
    life,        \* the lifecycle calls each pipeline has received from the session
    gui          \* the session list of the GUI event loop

vars == <<pipelines, file, runtime, lists, result, saved, lastOps,
          frameIn, frameRes, lastChange, events, codec, loader, life, gui>>

----------------------------------------------------------------------------
(* Bounds of the model.                                                    *)

MaxPipelines == 3
MaxOrder == 3
MaxActive == 2
MaxChain == 2
MaxDim == 2
MaxInt == 2
NumPids == 16
MaxSteps == 4

----------------------------------------------------------------------------
(* Python values.                                                          *)

PyBool(b) == [t |-> "bool", h |-> IF b THEN 2 ELSE 0]
PyInt(n) == [t |-> "int", h |-> 2 * n]
PyFloat(h) == [t |-> "float", h |-> h]

\* bool(value)
py_bool(v) == PyBool(v.h # 0)

\* int(value): truncation towards zero
py_int(v) ==
    IF v.t = "float"
    THEN [t |-> "int", h |-> IF v.h >= 0 THEN 2 * (v.h \div 2) ELSE -(2 * ((-v.h) \div 2))]
    ELSE [t |-> "int", h |-> v.h]

\* the string values of the model, [t |-> "str", h |-> index in StrTable]
StrTable == <<"True", "False", "on">>
PyStr(i) == [t |-> "str", h |-> i]

\* str(value): the words True and False for a bool, the string itself for a
\* string; a number prints as a numeral (sign, digits, point)
py_str(v) ==
    CASE v.t = "bool" -> (IF v.h # 0 THEN "True" ELSE "False")
      [] v.t = "str" -> StrTable[v.h]
      [] OTHER -> "numeral"

\* float(value) of a bool, an int or a float: the numeric form a transport carries
py_float(v) == [t |-> "float", h |-> v.h]

\* str(value) in ["True", "False"]
StrIsTrueFalse(v) == py_str(v) \in {"True", "False"}

\* isinstance(value, int): bool is a subclass of int
IsInstanceInt(v) == v.t \in {"bool", "int"}

EmptyDict == [x \in {} |-> 0]

\* Tooltips are sequences of characters.
ComboTip == <<"%", "C", "O", "M", "B", "O", "[", "a", ",", "b", "]", "m">>
PlainTip == <<"g", "a", "i", "n">>
OpenTip == <<"%", "C", "O", "M", "B", "O", "[", "a">>

ComboPrefix == <<"%", "C", "O", "M", "B", "O", "[">>

\* _COMBO_TAG_REGEX.match(tooltip), ^%COMBO\[(.*?,)*.*?\].*$ : the literal prefix,
\* then a closing bracket with no line break before it, then no line break but
\* possibly a last one
ComboTagMatch(tip) ==
    /\ Len(tip) > Len(ComboPrefix)
    /\ SubSeq(tip, 1, Len(ComboPrefix)) = ComboPrefix
    /\ \E i \in (Len(ComboPrefix) + 1)..Len(tip) : tip[i] = "]"
    /\ \A j \in 1..(Len(tip) - 1) : tip[j] # "\n"

\* a type inference that asks isinstance(value, int) first
to_internal_type_int_first(value, tooltip) ==
    IF IsInstanceInt(value)
    THEN (IF ComboTagMatch(tooltip) THEN 3 ELSE 1)
    ELSE IF StrIsTrueFalse(value) THEN 0 ELSE 2

\* Pipeline._to_internal_type
to_internal_type(value, tooltip) ==
    IF StrIsTrueFalse(value) THEN 0
    ELSE IF IsInstanceInt(value)
         THEN (IF ComboTagMatch(tooltip) THEN 3 ELSE 1)
         ELSE 2

\* Pipeline.__init__: mappings
Mappings(settings) ==
    IF ~settings.has THEN EmptyDict
    ELSE [k \in DOMAIN settings.vars |-> to_internal_type(settings.vars[k][1], settings.vars[k][5])]

\* a decoding that forgets the combo code
to_value_combo_as_float(mappings, key, value) ==
    IF mappings[key] = 0 THEN py_bool(value)
    ELSE IF mappings[key] = 1 THEN py_int(value)
    ELSE value

\* Pipeline._to_value, on the mappings table
to_value(mappings, key, value) ==
    IF mappings[key] = 0 THEN py_bool(value)
    ELSE IF mappings[key] = 1 \/ mappings[key] = 3 THEN py_int(value)
    ELSE value

----------------------------------------------------------------------------
(* The pipeline files of the model: what each declares.                    *)

Keys == {"A.py", "B.py", "C.py", "D.py"}

NoSettings == [has |-> FALSE, vars |-> EmptyDict]

\* module.settings of each file (None when the file declares none)
DeclaredSettings(k) ==
    CASE k = "A.py" -> NoSettings
      [] k = "B.py" -> [has |-> TRUE, vars |->
            [s \in {"level"} |-> <<PyFloat(2), PyFloat(0), PyFloat(10), PyFloat(1), PlainTip>>]]
      [] k = "C.py" -> [has |-> TRUE, vars |->
            [s \in {"on", "mode"} |->
                IF s = "on" THEN <<PyBool(TRUE), PyInt(0), PyInt(1), PyInt(1), PlainTip>>
                ELSE <<PyInt(0), PyInt(0), PyInt(1), PyInt(1), ComboTip>>]]
      [] OTHER -> [has |-> TRUE, vars |-> EmptyDict]

\* the hooks each file defines besides on_frame_process
DeclaredHooks(k) ==
    CASE k = "A.py" -> {}
      [] k = "B.py" -> {"before_change_settings", "after_change_settings",
                        "on_load", "on_unload"}
      [] k = "C.py" -> {"after_change_settings", "on_load"}
      [] OTHER -> {"before_change_settings", "on_unload"}

\* basename(path)[:-3]
Stem(k) ==
    CASE k = "A.py" -> "A" [] k = "B.py" -> "B" [] k = "C.py" -> "C" [] OTHER -> "D"

HookNames == {"before_change_settings", "after_change_settings"}

\* _build_pipeline / Pipeline.__init__, for a file defining the hooks hs
BuildPipelineWith(k, hs) ==
    [file |-> k,
     name |-> Stem(k),
     hooks |-> hs,
     settings |-> DeclaredSettings(k),
     mappings |-> Mappings(DeclaredSettings(k))]

BuildPipeline(k) == BuildPipelineWith(k, DeclaredHooks(k))

\* all sequences over S of length at most n
SeqsUpTo(S, n) == UNION {[1..m -> S] : m \in 0..n}

Range(s) == {s[i] : i \in 1..Len(s)}

\* sequences without repetition over S, of length at most n
InjSeqs(S, n) == {s \in SeqsUpTo(S, n) : \A i, j \in 1..Len(s) : i # j => s[i] # s[j]}

\* the dict a load_pipelines run returns, files discovered in the order ks
LoadedPipelines(ks) == [keys |-> ks, tab |-> [k \in Range(ks) |-> BuildPipeline(k)]]

----------------------------------------------------------------------------
(* The settings file: json.dump / json.load.                               *)

\* a json.dump that writes a bool as the integer it is a subclass of
JsonDumpBoolAsInt(v) ==
    CASE v.t = "float" -> [j |-> "real", n |-> v.h]
      [] OTHER -> [j |-> "int", n |-> v.h \div 2]

\* json.dump of a setting value: true / false, an integer literal, or a literal
\* with a fraction part (repr of a float always has one)
JsonDump(v) ==
    CASE v.t = "bool" -> [j |-> IF v.h # 0 THEN "true" ELSE "false", n |-> 0]
      [] v.t = "int" -> [j |-> "int", n |-> v.h \div 2]
      [] OTHER -> [j |-> "real", n |-> v.h]

\* json.load of a literal: true / false -> bool, an integer literal -> int, a
\* literal with a fraction part -> float
JsonLoad(tok) ==
    CASE tok.j = "true" -> PyBool(TRUE)
      [] tok.j = "false" -> PyBool(FALSE)
      [] tok.j = "int" -> PyInt(tok.n)
      [] OTHER -> PyFloat(tok.n)

NoFile ==
    [kind |-> "missing", has_order |-> FALSE, order |-> <<>>,
     has_active |-> FALSE, active |-> <<>>, blocks |-> EmptyDict]

\* a file whose content json.load cannot parse
GarbageFile == [NoFile EXCEPT !.kind = "garbage"]

\* a file holding a JSON object
ObjectFile(ho, o, ha, a, b) ==
    [kind |-> "object", has_order |-> ho, order |-> o,
     has_active |-> ha, active |-> a, blocks |-> b]

\* save_settings: the dict written to the file
SavedObject(p, order, active) ==
    ObjectFile(TRUE, order, TRUE, active,
        [k \in {q \in Range(p.keys) : p.tab[q].settings.has} |->
            [s \in DOMAIN p.tab[k].settings.vars |-> JsonDump(p.tab[k].settings.vars[s][1])]])

\* the current value of every setting of every pipeline
SettingValues(p) ==
    [k \in Range(p.keys) |->
        [s \in DOMAIN p.tab[k].settings.vars |-> p.tab[k].settings.vars[s][1]]]

----------------------------------------------------------------------------
(* load_settings.                                                          *)

\* a load_settings that writes the persisted value one element too far
OverlayOneWrongIndex(pl, block) ==
    [pl EXCEPT !.settings.vars =
        [s \in DOMAIN pl.settings.vars |->
            IF s \in DOMAIN block
            THEN [pl.settings.vars[s] EXCEPT ![2] = JsonLoad(block[s])]
            ELSE pl.settings.vars[s]]]

\* load_settings, lines 318-324: the persisted values written into the pipelines
OverlayOne(pl, block) ==
    [pl EXCEPT !.settings.vars =
        [s \in DOMAIN pl.settings.vars |->
            IF s \in DOMAIN block
            THEN [pl.settings.vars[s] EXCEPT ![1] = JsonLoad(block[s])]
            ELSE pl.settings.vars[s]]]

OverlaySettings(p, blocks) ==
    [p EXCEPT !.tab =
        [k \in DOMAIN p.tab |->
            IF k \in DOMAIN blocks /\ p.tab[k].settings.has
            THEN OverlayOne(p.tab[k], blocks[k])
            ELSE p.tab[k]]]

\* a load_settings that forgets the newly discovered pipelines
ReconciledOrderNoAppend(persisted, ks) ==
    SelectSeq(persisted, LAMBDA q : q \in Range(ks))

\* a load_settings that puts the newly discovered pipelines first
ReconciledOrderPrepend(persisted, ks) ==
    SelectSeq(ks, LAMBDA q : q \notin Range(persisted))
        \o SelectSeq(persisted, LAMBDA q : q \in Range(ks))

\* load_settings, lines 325-327
ReconciledOrder(persisted, ks) ==
    SelectSeq(persisted, LAMBDA q : q \in Range(ks))
        \o SelectSeq(ks, LAMBDA q : q \notin Range(persisted))

\* a load_settings that takes the persisted active list as it is
ReconciledActiveUnfiltered(persisted, ks) == persisted

\* load_settings, line 328
ReconciledActive(persisted, ks) == SelectSeq(persisted, LAMBDA q : q \in Range(ks))

NoRuntime ==
    [pipeline_order |-> 0, active_pipelines |-> 0, to_unload |-> 0, to_load |-> 0,
     changes |-> EmptyDict]

NoResult == [status |-> "none", exc |-> "", was_persisted |-> FALSE]

Returned(wp) == [status |-> "returned", exc |-> "", was_persisted |-> wp]

Raised(e) == [status |-> "raised", exc |-> e, was_persisted |-> FALSE]

\* a load_settings that seeds to_load with a new empty list
PersistedRuntimeEmptyToLoad(order, active) ==
    [runtime |-> [pipeline_order |-> 1, active_pipelines |-> 2, to_unload |-> 3,
                  to_load |-> 4, changes |-> EmptyDict],
     lists |-> <<order, active, <<>>, <<>> >>]

\* load_settings, line 329: PipelineRuntimeData(order, active, [], active, {}).
\* The list `active` is passed twice: active_pipelines and to_load are one object.
PersistedRuntime(order, active) ==
    [runtime |-> [pipeline_order |-> 1, active_pipelines |-> 2, to_unload |-> 3,
                  to_load |-> 2, changes |-> EmptyDict],
     lists |-> <<order, active, <<>> >>]

\* a load_settings that activates every pipeline when there is no file
DefaultRuntimeAllActive(ks) ==
    [runtime |-> [pipeline_order |-> 1, active_pipelines |-> 2, to_unload |-> 3,
                  to_load |-> 4, changes |-> EmptyDict],
     lists |-> <<ks, ks, <<>>, <<>> >>]

\* load_settings, line 330: PipelineRuntimeData(list(pipelines.keys()), [], [], [], {})
DefaultRuntime(ks) ==
    [runtime |-> [pipeline_order |-> 1, active_pipelines |-> 2, to_unload |-> 3,
                  to_load |-> 4, changes |-> EmptyDict],
     lists |-> <<ks, <<>>, <<>>, <<>> >>]

\* load_settings(pipelines, dir_path): the pipelines after the call, what the call
\* returned (rt: runtime data and heap) and how it ended
load_settings(p, f) ==
    IF f.kind = "missing"
    THEN [pipelines |-> p, rt |-> DefaultRuntime(p.keys), result |-> Returned(FALSE)]
    ELSE IF f.kind = "garbage"
    THEN [pipelines |-> p, rt |-> [runtime |-> NoRuntime, lists |-> <<>>],
          result |-> Raised("JSONDecodeError")]
    ELSE IF ~f.has_order \/ ~f.has_active
    THEN [pipelines |-> OverlaySettings(p, f.blocks),
          rt |-> [runtime |-> NoRuntime, lists |-> <<>>],
          result |-> Raised("KeyError")]
    ELSE [pipelines |-> OverlaySettings(p, f.blocks),
          rt |-> PersistedRuntime(ReconciledOrder(f.order, p.keys),
                                  ReconciledActive(f.active, p.keys)),
          result |-> Returned(TRUE)]

----------------------------------------------------------------------------
(* The inputs of the model.                                                *)

\* what load_pipelines may have returned
Discoveries == {LoadedPipelines(ks) : ks \in InjSeqs(Keys, MaxPipelines)}

RealFive == [j |-> "real", n |-> 5]
IntOne == [j |-> "int", n |-> 1]

\* per-pipeline blocks a settings file may hold: known and unknown top-level
\* keys, known and unknown setting keys
FileBlocks ==
    {EmptyDict,
     [k \in {"B.py"} |-> [s \in {"level", "gone"} |-> IF s = "level" THEN RealFive ELSE IntOne]],
     [k \in {"B.py", "D.py"} |-> [s \in {"level"} |-> IntOne]],
     [k \in {"C.py", "theme"} |-> [s \in {"mode"} |-> IntOne]],
     [k \in {"A.py", "C.py"} |-> [s \in {"on"} |-> [j |-> "false", n |-> 0]]]}

SomeOrders == {<<>>, <<"C.py", "B.py">>, <<"A.py", "B.py", "C.py">>}
SomeActives == {<<>>, <<"B.py">>, <<"A.py", "C.py">>}

\* the settings files a run may find: no file, an unparseable one, objects with
\* every order, with every active list, and with or without each key and block
FileContents ==
    {NoFile, GarbageFile}
    \cup {ObjectFile(TRUE, o, TRUE, a, EmptyDict) :
            o \in SeqsUpTo(Keys, MaxOrder), a \in SomeActives}
    \cup {ObjectFile(TRUE, o, TRUE, a, EmptyDict) :
            o \in SomeOrders, a \in SeqsUpTo(Keys, MaxActive)}
    \cup {ObjectFile(ho, IF ho THEN o ELSE <<>>, ha, IF ha THEN a ELSE <<>>, b) :
            ho \in BOOLEAN, ha \in BOOLEAN, b \in FileBlocks,
            o \in {<<>>, <<"C.py", "B.py">>}, a \in {<<>>, <<"B.py">>}}

NoSaved == [order |-> <<>>, active |-> <<>>, values |-> EmptyDict]

PushOp(ops, op) == IF Len(ops) < 2 THEN Append(ops, op) ELSE <<ops[2], op>>

NoneFrame == [shape |-> <<>>, data |-> <<>>]

NoFrameIn == [frame |-> NoneFrame, chain |-> <<>>, modes |-> <<>>]

NoFrame ==
    [op |-> "none", status |-> "none", exc |-> [type |-> "", args |-> <<>>],
     frame |-> NoneFrame, invoked |-> <<>>, outs |-> <<>>]

NoChange ==
    [file |-> "", enabled |-> FALSE, key |-> "", new_value |-> PyFloat(0),
     old |-> PyFloat(0)]

----------------------------------------------------------------------------
(* The settings persistence state machine.                                 *)

NoCodec == [done |-> FALSE]
NoLoader == [done |-> FALSE]
NoLife == [started |-> FALSE]
NoGui == [started |-> FALSE]

InitCore ==
    /\ runtime = NoRuntime
    /\ lists = <<>>
    /\ result = NoResult
    /\ saved = NoSaved
    /\ lastOps = <<>>
    /\ frameRes = NoFrame
    /\ lastChange = NoChange
    /\ events = <<>>

\* the parts of the state the other specifications leave out
InitRest ==
    /\ InitCore
    /\ codec = NoCodec
    /\ loader = NoLoader
    /\ life = NoLife
    /\ gui = NoGui

\* a run starts with the pipelines load_pipelines returned and the settings file
\* the directory holds
Init ==
    /\ pipelines \in Discoveries
    /\ file \in FileContents
    /\ frameIn = NoFrameIn
    /\ InitRest

\* a call of load_settings(pipelines, dir_path)
LoadSettings ==
    LET r == load_settings(pipelines, file)
    IN /\ pipelines' = r.pipelines
       /\ runtime' = r.rt.runtime
       /\ lists' = r.rt.lists
       /\ result' = r.result
       /\ lastOps' = PushOp(lastOps, "load")
       /\ UNCHANGED <<file, saved, frameIn, frameRes, lastChange, events, codec, loader, life, gui>>

Next == LoadSettings

Spec == Init /\ [][Next]_vars

----------------------------------------------------------------------------
(* Saving and loading again.                                               *)

\* the settings files a saving run may start from
RoundTripFiles ==
    {NoFile} \cup {ObjectFile(TRUE, <<>>, TRUE, <<>>, b) : b \in FileBlocks}

InitRoundTrip ==
    /\ pipelines \in Discoveries
    /\ file \in RoundTripFiles
    /\ frameIn = NoFrameIn
    /\ InitRest

\* the (order, active) arguments of a save: every order without repetition over
\* the loaded keys, and every such active list
SaveArgs(ks) ==
    {<<o, a>> : o \in InjSeqs(Range(ks), MaxPipelines),
                a \in {<<>>} \cup {<<k>> : k \in Range(ks)}}
    \cup {<<ks, a>> : a \in InjSeqs(Range(ks), MaxActive)}

\* a call of save_settings(pipelines, order, active, dir_path); it returns None.
\* A run of the model saves once.
SaveSettings ==
    /\ saved = NoSaved
    /\ \E args \in SaveArgs(pipelines.keys) :
          /\ file' = SavedObject(pipelines, args[1], args[2])
          /\ saved' = [order |-> args[1], active |-> args[2],
                       values |-> SettingValues(pipelines)]
    /\ runtime' = NoRuntime
    /\ lists' = <<>>
    /\ result' = NoResult
    /\ lastOps' = PushOp(lastOps, "save")
    /\ UNCHANGED <<pipelines, frameIn, frameRes, lastChange, events, codec, loader, life, gui>>

NextRoundTrip == LoadSettings \/ SaveSettings

SpecRoundTrip == InitRoundTrip /\ [][NextRoundTrip]_vars

----------------------------------------------------------------------------
(* Pipeline.process_frame and the chain of active pipelines.               *)

\* what an on_frame_process callback may do with the buffer it is given
Modes == {"keep", "transpose", "flatten", "grow"}

\* number of elements of a buffer of the given shape
RECURSIVE Size(_)
Size(shape) == IF shape = <<>> THEN 1 ELSE Head(shape) * Size(Tail(shape))

\* numpy shape of the callback's output: the same, the first two dimensions
\* swapped, one dimension of the same element count, or one more row
Reshape(mode, shape) ==
    CASE mode = "keep" -> shape
      [] mode = "transpose" ->
            IF Len(shape) < 2 THEN shape
            ELSE [shape EXCEPT ![1] = shape[2], ![2] = shape[1]]
      [] mode = "flatten" -> <<Size(shape)>>
      [] OTHER -> [shape EXCEPT ![1] = @ + 1]

\* self.callbacks.on_frame_process(frame, width, height, frame_num) of pipeline k
on_frame_process(k, mode, frame) ==
    [shape |-> Reshape(mode, frame.shape), data |-> Append(frame.data, k)]

FrameSizeModificationError == [type |-> "FrameSizeModificationError", args |-> <<>>]

NoError == [type |-> "", args |-> <<>>]

\* a process_frame that compares the element counts
process_frame_size(frame, out) ==
    IF Size(frame.shape) # Size(out.shape)
    THEN [status |-> "raised", exc |-> FrameSizeModificationError, frame |-> NoneFrame]
    ELSE [status |-> "returned", exc |-> NoError, frame |-> out]

\* Pipeline.process_frame, out being what on_frame_process returned
process_frame(frame, out) ==
    IF frame.shape # out.shape
    THEN [status |-> "raised", exc |-> FrameSizeModificationError, frame |-> NoneFrame]
    ELSE [status |-> "returned", exc |-> NoError, frame |-> out]

\* the execution engine: each active pipeline in list order, the output of one
\* the input of the next; an exception ends the loop and reaches the caller
RECURSIVE RunChain(_, _, _, _, _)
RunChain(chain, modes, i, frame, acc) ==
    IF i > Len(chain)
    THEN [op |-> "chain", status |-> "returned", exc |-> NoError, frame |-> frame,
          invoked |-> acc.invoked, outs |-> acc.outs]
    ELSE LET out == on_frame_process(chain[i], modes[i], frame)
             r == process_frame(frame, out)
             acc2 == [invoked |-> Append(acc.invoked, chain[i]),
                      outs |-> Append(acc.outs, out)]
         IN IF r.status = "raised"
            THEN [op |-> "chain", status |-> "raised", exc |-> r.exc, frame |-> NoneFrame,
                  invoked |-> acc2.invoked, outs |-> acc2.outs]
            ELSE RunChain(chain, modes, i + 1, r.frame, acc2)

\* the frames the host hands over: height x width x 3 channels
InputFrames == {[shape |-> <<h, w, 3>>, data |-> <<>>] : h \in 1..MaxDim, w \in 1..MaxDim}

InitFrame ==
    /\ pipelines \in {LoadedPipelines(ks) : ks \in InjSeqs(Keys, MaxChain)}
    /\ file = NoFile
    /\ \E fr \in InputFrames, ch \in InjSeqs(Range(pipelines.keys), MaxChain) :
          \E ms \in [1..Len(ch) -> Modes] :
             frameIn = [frame |-> fr, chain |-> ch, modes |-> ms]
    /\ InitRest

\* one call pipelines[k].process_frame(frame, width, height, frame_num), k the
\* first active pipeline
ProcessFrame ==
    /\ frameIn.chain # <<>>
    /\ LET k == frameIn.chain[1]
           out == on_frame_process(k, frameIn.modes[1], frameIn.frame)
           r == process_frame(frameIn.frame, out)
       IN frameRes' = [op |-> "single", status |-> r.status, exc |-> r.exc,
                       frame |-> r.frame, invoked |-> <<k>>, outs |-> <<out>>]
    /\ UNCHANGED <<pipelines, file, runtime, lists, result, saved, lastOps,
                   frameIn, lastChange, events, codec, loader, life, gui>>

\* one frame through the chain of active pipelines
ProcessChain ==
    /\ frameRes' = RunChain(frameIn.chain, frameIn.modes, 1, frameIn.frame,
                            [invoked |-> <<>>, outs |-> <<>>])
    /\ UNCHANGED <<pipelines, file, runtime, lists, result, saved, lastOps,
                   frameIn, lastChange, events, codec, loader, life, gui>>

NextFrame == ProcessFrame \/ ProcessChain

SpecFrame == InitFrame /\ [][NextFrame]_vars

\* the buffer pipeline number i of the chain was given
InputOf(i) == IF i = 1 THEN frameIn.frame ELSE frameRes.outs[i - 1]

\* the first pipeline of the chain whose callback changes the shape (0: none)
FirstBad ==
    LET bad == {i \in 1..Len(frameIn.chain) :
                  Reshape(frameIn.modes[i], frameIn.frame.shape) # frameIn.frame.shape}
    IN IF bad = {} THEN 0 ELSE CHOOSE i \in bad : \A j \in bad : i <= j

\* C8: process_frame raises FrameSizeModificationError exactly when the shape of
\* the callback's output differs from the shape of its input, and otherwise
\* returns the callback's output; in a chain, a violation means no later
\* pipeline is invoked for the frame and no processed frame is returned.
C8_ShapeChecked ==
    frameRes.status # "none" =>
        LET n == Len(frameRes.invoked)
        IN /\ Len(frameRes.outs) = n
           /\ \A i \in 1..n :
                 /\ frameRes.invoked[i] = frameIn.chain[i]
                 /\ frameRes.outs[i] =
                       on_frame_process(frameIn.chain[i], frameIn.modes[i], InputOf(i))
                 /\ i < n => frameRes.outs[i].shape = InputOf(i).shape
           /\ frameRes.status = "raised" <=>
                 (n > 0 /\ frameRes.outs[n].shape # InputOf(n).shape)
           /\ frameRes.status = "raised" =>
                 /\ frameRes.exc.type = "FrameSizeModificationError"
                 /\ frameRes.frame = NoneFrame
                 /\ n = FirstBad
           /\ frameRes.status = "returned" =>
                 /\ frameRes.frame = (IF n = 0 THEN frameIn.frame ELSE frameRes.outs[n])
                 /\ frameRes.op = "chain" => (n = Len(frameIn.chain) /\ FirstBad = 0)
                 /\ frameRes.op = "single" => n = 1

C8_Witness ==
    /\ frameRes.op = "chain" /\ frameRes.status = "raised"
    /\ Len(frameIn.chain) = MaxChain
    /\ Len(frameRes.invoked) = 1
    /\ frameIn.modes[1] = "flatten"
    /\ frameRes.frame = NoneFrame

\* C9 as claimed: the error raised on a shape mismatch carries the identity (file
\* key or name) of the pipeline whose callback changed the shape.
C9_ErrorNamesPipeline ==
    frameRes.status = "raised" =>
        LET k == frameRes.invoked[Len(frameRes.invoked)]
        IN \E i \in 1..Len(frameRes.exc.args) :
              frameRes.exc.args[i] \in {pipelines.tab[k].file, pipelines.tab[k].name}

----------------------------------------------------------------------------
(* Pipeline.change_settings.                                               *)

\* the raw values the transport hands to change_settings
RawValues == {PyFloat(0), PyFloat(2), PyFloat(5), PyFloat(-3), PyInt(3)}

HookEvent(hook, key, new_value, pl) ==
    [ev |-> hook, key |-> key, value |-> new_value, seen |-> pl.settings.vars[key][1]]

\* a change_settings that stores the value before it calls the first hook
change_settings_store_first(pl, enabled, key, new_value) ==
    LET pl2 == [pl EXCEPT !.settings.vars[key][1] = to_value(pl.mappings, key, new_value)]
        before == IF enabled /\ "before_change_settings" \in pl.hooks
                  THEN <<HookEvent("before_change_settings", key, new_value, pl2)>>
                  ELSE <<>>
        after == IF enabled /\ "after_change_settings" \in pl.hooks
                 THEN <<HookEvent("after_change_settings", key, new_value, pl2)>>
                 ELSE <<>>
    IN [pipeline |-> pl2,
        events |-> before \o <<HookEvent("store", key, new_value, pl2)>> \o after]

\* a change_settings that calls the hooks a pipeline defines whatever `enabled` is
change_settings_ignore_enabled(pl, enabled, key, new_value) ==
    LET before == IF "before_change_settings" \in pl.hooks
                  THEN <<HookEvent("before_change_settings", key, new_value, pl)>>
                  ELSE <<>>
        pl2 == [pl EXCEPT !.settings.vars[key][1] = to_value(pl.mappings, key, new_value)]
        after == IF "after_change_settings" \in pl.hooks
                 THEN <<HookEvent("after_change_settings", key, new_value, pl2)>>
                 ELSE <<>>
    IN [pipeline |-> pl2,
        events |-> before \o <<HookEvent("store", key, new_value, pl2)>> \o after]

\* Pipeline.change_settings: the pipeline after the call and, in order, the hook
\* calls (with their arguments and the value of settings[key][0] they find) and
\* the store. The hooks themselves leave the settings alone.
change_settings(pl, enabled, key, new_value) ==
    LET before == IF enabled /\ "before_change_settings" \in pl.hooks
                  THEN <<HookEvent("before_change_settings", key, new_value, pl)>>
                  ELSE <<>>
        pl2 == [pl EXCEPT !.settings.vars[key][1] = to_value(pl.mappings, key, new_value)]
        after == IF enabled /\ "after_change_settings" \in pl.hooks
                 THEN <<HookEvent("after_change_settings", key, new_value, pl2)>>
                 ELSE <<>>
    IN [pipeline |-> pl2,
        events |-> before \o <<HookEvent("store", key, new_value, pl2)>> \o after]

\* one loaded pipeline, its file defining any of the two hooks
InitChange ==
    /\ \E k \in Keys, hs \in SUBSET HookNames :
          pipelines = [keys |-> <<k>>, tab |-> [q \in {k} |-> BuildPipelineWith(k, hs)]]
    /\ file = NoFile
    /\ frameIn = NoFrameIn
    /\ InitRest

\* a call pipelines[k].change_settings(enabled, key, new_value), key a declared
\* setting of the pipeline
ChangeSettings ==
    \E k \in Range(pipelines.keys), enabled \in BOOLEAN, new_value \in RawValues :
       \E key \in DOMAIN pipelines.tab[k].settings.vars :
          LET r == change_settings(pipelines.tab[k], enabled, key, new_value)
          IN /\ pipelines' = [pipelines EXCEPT !.tab[k] = r.pipeline]
             /\ events' = r.events
             /\ lastChange' = [file |-> k, enabled |-> enabled, key |-> key,
                               new_value |-> new_value,
                               old |-> pipelines.tab[k].settings.vars[key][1]]
             /\ UNCHANGED <<file, runtime, lists, result, saved, lastOps,
                            frameIn, frameRes, codec, loader, life, gui>>

NextChange == ChangeSettings

SpecChange == InitChange /\ [][NextChange]_vars

\* the value of the given raw value in the type of the setting's declared default
DecodedAs(default, raw) ==
    CASE default.t = "bool" -> [t |-> "bool", h |-> IF raw.h = 0 THEN 0 ELSE 2]
      [] default.t = "int" ->
            [t |-> "int", h |-> CHOOSE e \in {raw.h - 1, raw.h, raw.h + 1} :
                                   /\ e % 2 = 0
                                   /\ (raw.h >= 0 => e <= raw.h /\ raw.h < e + 2)
                                   /\ (raw.h < 0 => e >= raw.h /\ raw.h > e - 2)]
      [] OTHER -> raw

Called == lastChange.file # ""

\* C10: change_settings(enabled = true, key, new_value) on a pipeline defining
\* both hooks: before_change_settings(key, new_value) runs while settings[key][0]
\* still holds the old value, then the decoded new value is stored, then
\* after_change_settings(key, new_value) runs; each hook once, with the raw value.
C10_HooksAroundStore ==
    (Called /\ lastChange.enabled /\ pipelines.tab[lastChange.file].hooks = HookNames) =>
        LET pl == pipelines.tab[lastChange.file]
            decoded == DecodedAs(BuildPipeline(lastChange.file).settings.vars[lastChange.key][1],
                                 lastChange.new_value)
        IN /\ Len(events) = 3
           /\ events[1] = [ev |-> "before_change_settings", key |-> lastChange.key,
                           value |-> lastChange.new_value, seen |-> lastChange.old]
           /\ events[2] = [ev |-> "store", key |-> lastChange.key,
                           value |-> lastChange.new_value, seen |-> decoded]
           /\ events[3] = [ev |-> "after_change_settings", key |-> lastChange.key,
                           value |-> lastChange.new_value, seen |-> decoded]
           /\ pl.settings.vars[lastChange.key][1] = decoded

C10_Witness ==
    /\ Called /\ lastChange.enabled
    /\ lastChange.file = "C.py" /\ lastChange.key = "mode"
    /\ lastChange.new_value = PyFloat(5)
    /\ lastChange.old = PyInt(-1)
    /\ Len(events) = 3
    /\ events[1].seen = PyInt(-1)
    /\ events[3].seen = PyInt(2)

\* C11: change_settings with enabled = false invokes neither hook and still
\* stores the decoded value in settings[key][0]; with enabled = true a hook the
\* pipeline does not define is skipped and the value is stored all the same.
C11_DisabledOrMissingHook ==
    Called =>
        LET pl == pipelines.tab[lastChange.file]
            decoded == DecodedAs(BuildPipeline(lastChange.file).settings.vars[lastChange.key][1],
                                 lastChange.new_value)
            invoked == {events[i].ev : i \in 1..Len(events)} \ {"store"}
        IN /\ (~lastChange.enabled => invoked = {})
           /\ \A h \in HookNames : h \notin pl.hooks => h \notin invoked
           /\ Cardinality({i \in 1..Len(events) : events[i].ev = "store"}) = 1
           /\ pl.settings.vars[lastChange.key][1] = decoded

C11_Witness ==
    /\ Called /\ ~lastChange.enabled
    /\ pipelines.tab[lastChange.file].hooks = HookNames
    /\ lastChange.file = "C.py" /\ lastChange.key = "mode"
    /\ lastChange.new_value = PyFloat(5)
    /\ lastChange.old = PyInt(0)
    /\ events = <<[ev |-> "store", key |-> "mode", value |-> PyFloat(5), seen |-> PyInt(2)]>>
    /\ pipelines.tab["C.py"].settings.vars["mode"][1] = PyInt(2)

----------------------------------------------------------------------------
(* Properties of load_settings.                                            *)

\* the last operation was a load_settings call
Loaded == lastOps # <<>> /\ lastOps[Len(lastOps)] = "load"

\* the settings file exists and holds an object with "order" and "active"
WellFormed == file.kind = "object" /\ file.has_order /\ file.has_active

\* s restricted to the elements in S, relative order kept
RECURSIVE Restrict(_, _)
Restrict(s, S) ==
    IF s = <<>> THEN <<>>
    ELSE (IF Head(s) \in S THEN <<Head(s)>> ELSE <<>>) \o Restrict(Tail(s), S)

LoadedKeys == Range(pipelines.keys)

NoRepeat(s) == \A i, j \in 1..Len(s) : i # j => s[i] # s[j]

\* C1: with a persisted configuration, pipeline_order is the persisted order
\* restricted to the loaded keys, followed by the loaded keys absent from the
\* persisted order in discovery order; persisted A,B,C against loaded B,C,D
\* gives B,C,D.
C1_OrderReconciled ==
    (Loaded /\ WellFormed) =>
        /\ result.status = "returned"
        /\ lists[runtime.pipeline_order] =
              Restrict(file.order, LoadedKeys)
                 \o Restrict(pipelines.keys, Keys \ Range(file.order))
        /\ (file.order = <<"A.py", "B.py", "C.py">>
              /\ pipelines.keys = <<"B.py", "C.py", "D.py">>)
           => lists[runtime.pipeline_order] = <<"B.py", "C.py", "D.py">>

C1_Witness ==
    /\ Loaded /\ WellFormed
    /\ file.order = <<"A.py", "B.py", "C.py">>
    /\ pipelines.keys = <<"B.py", "C.py", "D.py">>
    /\ lists[runtime.pipeline_order] = <<"B.py", "C.py", "D.py">>

\* C2: with a persisted configuration, active_pipelines is the persisted active
\* list restricted to the loaded keys, in persisted order; a key that is not
\* loaded never appears in it and raises no error.
C2_ActiveReconciled ==
    (Loaded /\ WellFormed) =>
        /\ result.status = "returned"
        /\ lists[runtime.active_pipelines] = Restrict(file.active, LoadedKeys)
        /\ Range(lists[runtime.active_pipelines]) \subseteq LoadedKeys

C2_Witness ==
    /\ Loaded /\ WellFormed
    /\ file.active = <<"A.py", "C.py">>
    /\ "A.py" \notin LoadedKeys
    /\ result.status = "returned"
    /\ lists[runtime.active_pipelines] = <<"C.py">>

\* C3: with a persisted configuration, load_settings returns was_persisted = true,
\* to_load equal as a sequence to the reconciled active list (each active key
\* once when the persisted list has no repetition), to_unload and changes empty.
C3_ToLoadPrimed ==
    (Loaded /\ WellFormed) =>
        /\ result.status = "returned" /\ result.was_persisted
        /\ lists[runtime.to_load] = Restrict(file.active, LoadedKeys)
        /\ lists[runtime.to_load] = lists[runtime.active_pipelines]
        /\ NoRepeat(file.active) => NoRepeat(lists[runtime.to_load])
        /\ lists[runtime.to_unload] = <<>>
        /\ runtime.changes = EmptyDict

C3_Witness ==
    /\ Loaded /\ WellFormed
    /\ result.was_persisted
    /\ Len(lists[runtime.to_load]) = 2
    /\ lists[runtime.to_load] = file.active

\* the loaded keys the settings file says nothing about
NoPersistedEntry ==
    IF WellFormed THEN LoadedKeys \ (Range(file.order) \cup Range(file.active))
    ELSE LoadedKeys

\* C17: the runtime state load_settings returns, from a settings file or without
\* one, is never partially invalid: every element of pipeline_order and of
\* active_pipelines is a loaded key, every loaded key occurs in pipeline_order
\* (once when the persisted order has no repetition), every active element
\* occurs in pipeline_order, and a pipeline without persisted entry comes after
\* every key of the persisted order and is not active.
C17_NeverPartiallyInvalid ==
    (Loaded /\ result.status = "returned") =>
        LET order == lists[runtime.pipeline_order]
            active == lists[runtime.active_pipelines]
        IN /\ Range(order) \subseteq LoadedKeys
           /\ Range(active) \subseteq LoadedKeys
           /\ LoadedKeys \subseteq Range(order)
           /\ (~WellFormed \/ NoRepeat(file.order)) => NoRepeat(order)
           /\ Range(active) \subseteq Range(order)
           /\ \A k \in NoPersistedEntry :
                 /\ k \notin Range(active)
                 /\ \A i, j \in 1..Len(order) :
                       (order[i] = k /\ WellFormed /\ order[j] \in Range(file.order))
                          => j < i

C17_Witness ==
    /\ Loaded /\ WellFormed /\ result.status = "returned"
    /\ file.order = <<"A.py", "B.py", "C.py">>
    /\ pipelines.keys = <<"D.py", "B.py", "C.py">>
    /\ NoPersistedEntry = {"D.py"}
    /\ lists[runtime.pipeline_order] = <<"B.py", "C.py", "D.py">>
    /\ lists[runtime.active_pipelines] # <<>>
    /\ "D.py" \notin Range(lists[runtime.active_pipelines])

\* every pipeline holds the settings its file declares
AllDefaults ==
    \A k \in LoadedKeys : pipelines.tab[k] = BuildPipeline(k)

\* C4: with no settings file, load_settings returns all loaded keys in discovery
\* order, no active pipeline, empty to_load, to_unload and changes,
\* was_persisted = false, and leaves every setting at its declared default.
C4_NoFileDefaults ==
    (Loaded /\ file.kind = "missing") =>
        /\ result.status = "returned" /\ ~result.was_persisted
        /\ lists[runtime.pipeline_order] = pipelines.keys
        /\ lists[runtime.active_pipelines] = <<>>
        /\ lists[runtime.to_load] = <<>>
        /\ lists[runtime.to_unload] = <<>>
        /\ runtime.changes = EmptyDict
        /\ AllDefaults

C4_Witness ==
    /\ Loaded /\ file.kind = "missing"
    /\ Len(pipelines.keys) = MaxPipelines
    /\ lists[runtime.pipeline_order] = pipelines.keys
    /\ ~result.was_persisted

\* the value a persisted literal stands for, not decoded by the setting's type
RawValue(tok) ==
    CASE tok.j = "true" -> [t |-> "bool", h |-> 2]
      [] tok.j = "false" -> [t |-> "bool", h |-> 0]
      [] tok.j = "int" -> [t |-> "int", h |-> tok.n + tok.n]
      [] OTHER -> [t |-> "float", h |-> tok.n]

\* load_settings touched setting s of pipeline k
Persisted(k, s) ==
    /\ k \in DOMAIN file.blocks
    /\ s \in DOMAIN file.blocks[k]

\* C5: load_settings changes only element 0 of the settings whose pipeline key
\* and setting key occur both in the file and in the pipeline's declared
\* settings, to the persisted raw value; every other value, every
\* min/max/step/tooltip and every other pipeline is unchanged, and unknown
\* top-level or setting keys are ignored without error.
C5_OverlayFrame ==
    (Loaded /\ WellFormed) =>
        /\ result.status = "returned"
        /\ DOMAIN pipelines.tab = LoadedKeys
        /\ \A k \in LoadedKeys :
              LET now == pipelines.tab[k]
                  was == BuildPipeline(k)
              IN /\ [now EXCEPT !.settings = was.settings] = was
                 /\ now.settings.has = was.settings.has
                 /\ DOMAIN now.settings.vars = DOMAIN was.settings.vars
                 /\ \A s \in DOMAIN was.settings.vars :
                       /\ \A i \in 2..5 : now.settings.vars[s][i] = was.settings.vars[s][i]
                       /\ Len(now.settings.vars[s]) = 5
                       /\ now.settings.vars[s][1] =
                             IF Persisted(k, s) THEN RawValue(file.blocks[k][s])
                             ELSE was.settings.vars[s][1]

C5_Witness ==
    /\ Loaded /\ WellFormed
    /\ "B.py" \in LoadedKeys
    /\ Persisted("B.py", "gone")
    /\ pipelines.tab["B.py"].settings.vars["level"][1] = PyFloat(5)
    /\ pipelines.tab["B.py"].settings.vars["level"][2] = PyFloat(0)

\* C7 as claimed: a missing or malformed settings file (unparseable, or lacking
\* "order" or "active") makes load_settings return the default state without
\* error, all settings at their declared defaults.
C7_MalformedIsDefault ==
    (Loaded /\ ~WellFormed) =>
        /\ result.status = "returned" /\ ~result.was_persisted
        /\ lists[runtime.pipeline_order] = pipelines.keys
        /\ lists[runtime.active_pipelines] = <<>>
        /\ AllDefaults

----------------------------------------------------------------------------
(* Properties of save_settings followed by load_settings.                  *)

\* a save_settings call directly followed by a load_settings call
RoundTrip == lastOps = <<"save", "load">>

RoundTripSame ==
    /\ result.status = "returned"
    /\ lists[runtime.pipeline_order] = saved.order
    /\ lists[runtime.active_pipelines] = saved.active
    /\ SettingValues(pipelines) = saved.values

\* C6 as claimed: for any order and active sequences of loaded pipeline keys,
\* save_settings then load_settings gives back the saved order, the saved active
\* list and every setting value.
C6_RoundTripAnyOrder ==
    (RoundTrip /\ Range(saved.order) \subseteq LoadedKeys
               /\ Range(saved.active) \subseteq LoadedKeys) => RoundTripSame

\* C6, amended: the round trip gives back order, active and every setting value
\* when the saved order consists of exactly the loaded pipeline keys.
C6_RoundTripCovering ==
    (RoundTrip /\ Range(saved.order) = LoadedKeys
               /\ Range(saved.active) \subseteq LoadedKeys) => RoundTripSame

C6_Witness ==
    /\ RoundTrip
    /\ Range(saved.order) = LoadedKeys
    /\ Len(saved.order) = MaxPipelines
    /\ saved.order # pipelines.keys
    /\ saved.active # <<>>
    /\ "B.py" \in LoadedKeys /\ "C.py" \in LoadedKeys
    /\ saved.values["B.py"]["level"] = PyFloat(5)
    /\ RoundTripSame

----------------------------------------------------------------------------
(* The setting codec: Pipeline.__init__ infers a type code from a declared *)
(* default and its tooltip, Pipeline._to_value decodes a transported number *)
(* under that code.                                                        *)

Chars(str) ==
    CASE str = "combo_nl" -> ComboPrefix \o <<"a", "]", "\n">>
      [] str = "combo_empty" -> ComboPrefix \o <<"]">>
      [] str = "lower" -> <<"%", "c", "o", "m", "b", "o", "[", "a", "]">>
      [] str = "indented" -> <<" ">> \o ComboPrefix \o <<"a", "]">>
      [] str = "nl_inside" -> ComboPrefix \o <<"a", "\n", "b", "]">>
      [] str = "nl_after" -> ComboPrefix \o <<"a", "]", "\n", "x">>
      [] str = "two_nl" -> ComboPrefix \o <<"]", "\n", "\n">>
      [] OTHER -> <<"%", "C", "O", "M", "B", "O", "]">>

\* tooltips, each with what re.match of _COMBO_TAG_REGEX answers for it
TooltipCases ==
    {[tip |-> ComboTip, re |-> TRUE], [tip |-> PlainTip, re |-> FALSE],
     [tip |-> OpenTip, re |-> FALSE], [tip |-> <<>>, re |-> FALSE],
     [tip |-> Chars("combo_nl"), re |-> TRUE], [tip |-> Chars("combo_empty"), re |-> TRUE],
     [tip |-> Chars("lower"), re |-> FALSE], [tip |-> Chars("indented"), re |-> FALSE],
     [tip |-> Chars("nl_inside"), re |-> FALSE], [tip |-> Chars("nl_after"), re |-> FALSE],
     [tip |-> Chars("two_nl"), re |-> FALSE], [tip |-> Chars("no_open"), re |-> FALSE]}

\* declared defaults: booleans, integers, floats (in halves) and strings
Defaults ==
    {PyBool(b) : b \in BOOLEAN} \cup {PyInt(n) : n \in (-MaxInt)..MaxInt}
    \cup {PyFloat(h) : h \in (-2 * MaxInt)..(2 * MaxInt)}
    \cup {PyStr(i) : i \in DOMAIN StrTable}

Numeric(v) == v.t \in {"bool", "int", "float"}

NotDecoded == [t |-> "none", h |-> 0]

InitCodec ==
    /\ pipelines = LoadedPipelines(<<>>)
    /\ file = NoFile
    /\ frameIn = NoFrameIn
    /\ InitCore
    /\ \E v \in Defaults, c \in TooltipCases :
          codec = [done |-> FALSE, value |-> v, tooltip |-> c.tip, re |-> c.re]
    /\ loader = NoLoader
    /\ life = NoLife
    /\ gui = NoGui

\* a pipeline declaring the setting x = [value, min, max, step, tooltip] is built
\* (Pipeline.__init__ computes its mappings); then the numeric form of the
\* default comes back from the transport and is decoded with _to_value
Codec ==
    /\ ~codec.done
    /\ LET settings == [has |-> TRUE, vars |->
                          [k \in {"x"} |-> <<codec.value, PyInt(0), PyInt(1), PyInt(1),
                                              codec.tooltip>>]]
           mappings == Mappings(settings)
       IN codec' = [codec EXCEPT !.done = TRUE] @@
                   [code |-> mappings["x"],
                    decoded |-> IF Numeric(codec.value)
                                THEN to_value(mappings, "x", py_float(codec.value))
                                ELSE NotDecoded]
    /\ UNCHANGED <<pipelines, file, runtime, lists, result, saved, lastOps,
                   frameIn, frameRes, lastChange, events, loader, life, gui>>

NextCodec == Codec

SpecCodec == InitCodec /\ [][NextCodec]_vars

\* C12: a default whose string form is "True" or "False" gets the boolean code 0
\* whatever the tooltip; otherwise an integer default gets the combo code 3 when
\* the tooltip matches the %COMBO[...] pattern and the integer code 1 when it
\* does not; every other default gets the float code 2.
C12_TypeCodePriority ==
    codec.done =>
        codec.code =
            IF codec.value \in {PyBool(TRUE), PyBool(FALSE), PyStr(1), PyStr(2)} THEN 0
            ELSE IF codec.value.t = "int" THEN (IF codec.re THEN 3 ELSE 1)
            ELSE 2

C12_Witness ==
    /\ codec.done
    /\ codec.value = PyInt(1) /\ codec.tooltip = Chars("combo_nl") /\ codec.code = 3

\* C13: for every boolean, integer or float default v and every tooltip, decoding
\* the numeric form of v under the type code inferred for (v, tooltip) gives a
\* value equal to v and of the type of v.
C13_DecodeRoundTrip ==
    (codec.done /\ Numeric(codec.value)) =>
        /\ codec.decoded.t = codec.value.t
        /\ codec.decoded.h = codec.value.h

C13_Witness ==
    /\ codec.done
    /\ codec.value = PyInt(-2) /\ codec.tooltip = ComboTip
    /\ codec.code = 3 /\ codec.decoded = PyInt(-2)

----------------------------------------------------------------------------
(* load_pipelines: the directory that is scanned and the files that load.  *)

PIPELINE_DIRS == <<"./pipelines", "./PyHook/pipelines">>

NoDir == ""

\* what executing and validating a pipeline file does: "ok" defines
\* on_frame_process, "raises" raises an Exception while it is imported or executed,
\* "no_callback" executes and defines no on_frame_process
ModuleKinds == {"ok", "raises", "no_callback"}

\* the disks of the model: whether each candidate directory exists and the *.py
\* files glob finds in it, in glob's order
Disks ==
    {[d \in Range(PIPELINE_DIRS) |->
         [isdir |-> x[d], py |-> IF d = PIPELINE_DIRS[1] THEN f1 ELSE f2]] :
       x \in [Range(PIPELINE_DIRS) -> BOOLEAN],
       f1 \in InjSeqs(Keys, MaxPipelines),
       f2 \in {<<>>, <<"D.py">>, <<"B.py", "A.py">>}}

\* lines 254-258: the loop over _PIPELINE_DIRS keeps assigning, so pipeline_dir
\* is what the last existing candidate left in it (NoDir stands for None)
pipeline_dir(disk) ==
    LET after[i \in 0..Len(PIPELINE_DIRS)] ==
            IF i = 0 THEN NoDir
            ELSE IF disk[PIPELINE_DIRS[i]].isdir THEN PIPELINE_DIRS[i]
            ELSE after[i - 1]
    IN after[Len(PIPELINE_DIRS)]

\* glob.glob(f"{pipeline_dir}/*.py"): paths are <<directory, file name>>
Glob(disk, dir) == [i \in 1..Len(disk[dir].py) |-> <<dir, disk[dir].py[i]>>]

\* basename(path)
basename(path) == path[2]

\* the try block for one file, lines 265-273: the exception it raises ("" for
\* none) and the pipeline _build_pipeline returns
try_load(path, kind) ==
    IF kind = "raises" THEN [exc |-> "ImportError", pipeline |-> <<>>]
    ELSE IF kind = "no_callback" THEN [exc |-> "ValueError", pipeline |-> <<>>]
    ELSE [exc |-> "", pipeline |-> BuildPipeline(basename(path))]

NoneLoaded == [keys |-> <<>>, tab |-> EmptyDict, caught |-> <<>>]

RECURSIVE scan_stop_at_error(_, _, _, _)
\* a scan that ends at the first file that fails
scan_stop_at_error(paths, kinds, i, acc) ==
    IF i > Len(paths) THEN acc
    ELSE LET r == try_load(paths[i], kinds[basename(paths[i])])
             k == r.pipeline.file
         IN IF r.exc # "" THEN [acc EXCEPT !.caught = Append(@, <<paths[i], r.exc>>)]
            ELSE scan_stop_at_error(paths, kinds, i + 1,
                     [keys |-> IF k \in Range(acc.keys) THEN acc.keys ELSE Append(acc.keys, k),
                      tab |-> [q \in DOMAIN acc.tab \cup {k} |->
                                  IF q = k THEN r.pipeline ELSE acc.tab[q]],
                      caught |-> acc.caught])

RECURSIVE scan(_, _, _, _)
\* lines 263-279: the loop over the files from the i-th on; an exception is
\* caught and the loop goes on, a built pipeline is stored under pipeline.file
scan(paths, kinds, i, acc) ==
    IF i > Len(paths) THEN acc
    ELSE LET r == try_load(paths[i], kinds[basename(paths[i])])
             k == r.pipeline.file
         IN IF r.exc # ""
            THEN scan(paths, kinds, i + 1,
                      [acc EXCEPT !.caught = Append(@, <<paths[i], r.exc>>)])
            ELSE scan(paths, kinds, i + 1,
                     [keys |-> IF k \in Range(acc.keys) THEN acc.keys ELSE Append(acc.keys, k),
                      tab |-> [q \in DOMAIN acc.tab \cup {k} |->
                                  IF q = k THEN r.pipeline ELSE acc.tab[q]],
                      caught |-> acc.caught])

\* load_pipelines
load_pipelines(disk, kinds) ==
    LET dir == pipeline_dir(disk)
    IN IF dir = NoDir
       THEN [status |-> "raised", exc |-> "PipelinesDirNotFoundError", dir |-> dir,
             loaded |-> NoneLoaded]
       ELSE [status |-> "returned", exc |-> "", dir |-> dir,
             loaded |-> scan(Glob(disk, dir), kinds, 1, NoneLoaded)]

InitLoader ==
    /\ pipelines = LoadedPipelines(<<>>)
    /\ file = NoFile
    /\ frameIn = NoFrameIn
    /\ InitCore
    /\ codec = NoCodec
    /\ \E disk \in Disks, kinds \in [Keys -> ModuleKinds] :
          loader = [done |-> FALSE, disk |-> disk, kinds |-> kinds]
    /\ life = NoLife
    /\ gui = NoGui

\* a call load_pipelines(); the caller keeps the returned dictionary
LoadPipelines ==
    /\ ~loader.done
    /\ LET r == load_pipelines(loader.disk, loader.kinds)
       IN /\ loader' = [done |-> TRUE, disk |-> loader.disk, kinds |-> loader.kinds,
                        status |-> r.status, exc |-> r.exc, dir |-> r.dir,
                        caught |-> r.loaded.caught]
          /\ pipelines' = IF r.status = "returned"
                          THEN [keys |-> r.loaded.keys, tab |-> r.loaded.tab]
                          ELSE pipelines
    /\ UNCHANGED <<file, runtime, lists, result, saved, lastOps,
                   frameIn, frameRes, lastChange, events, codec, life, gui>>

NextLoader == LoadPipelines

SpecLoader == InitLoader /\ [][NextLoader]_vars

SomeDirExists == \E d \in DOMAIN loader.disk : loader.disk[d].isdir

\* C14: a file that raises while it is loaded or executed, or that fails the
\* validation of _build_pipeline, never ends the scan: whenever a candidate
\* directory exists load_pipelines returns, and the returned map holds exactly
\* the files of the scanned directory that loaded and validated, each under its
\* base file name; it is the empty map, without error, when none did.
C14_FailureIsolation ==
    (loader.done /\ SomeDirExists) =>
        /\ loader.status = "returned"
        /\ loader.dir \in DOMAIN loader.disk
        /\ LET scanned == loader.disk[loader.dir].py
               good == {k \in Range(scanned) : loader.kinds[k] = "ok"}
           IN /\ Range(pipelines.keys) = good
              /\ DOMAIN pipelines.tab = good
              /\ pipelines.keys = Restrict(scanned, good)
              /\ \A k \in good : pipelines.tab[k].file = k
              /\ {loader.caught[i][1][2] : i \in 1..Len(loader.caught)} = Range(scanned) \ good

C14_Witness ==
    /\ loader.done /\ loader.status = "returned"
    /\ loader.dir = "./pipelines"
    /\ loader.disk["./pipelines"].py = <<"B.py", "A.py", "C.py">>
    /\ loader.kinds["B.py"] = "raises" /\ loader.kinds["A.py"] = "no_callback"
    /\ loader.kinds["C.py"] = "ok"
    /\ pipelines.keys = <<"C.py">>
    /\ Len(loader.caught) = 2

\* C15: load_pipelines scans the first existing directory of _PIPELINE_DIRS; when
\* more than one candidate exists the earliest in the list is the one scanned.
C15_FirstExistingScanned ==
    (loader.done /\ SomeDirExists) =>
        LET first == CHOOSE i \in 1..Len(PIPELINE_DIRS) :
                        /\ loader.disk[PIPELINE_DIRS[i]].isdir
                        /\ \A j \in 1..(i - 1) : ~loader.disk[PIPELINE_DIRS[j]].isdir
        IN loader.dir = PIPELINE_DIRS[first]

----------------------------------------------------------------------------
(* The lifecycle of a pipeline in a session: Pipeline.load, process_frame  *)
(* and Pipeline.unload, driven by the runtime data load_settings returned. *)
(* The session assigns new lists to the fields it changes.                 *)

\* Pipeline.load: the callbacks it invokes
load(pl) == IF "on_load" \in pl.hooks THEN <<"on_load">> ELSE <<>>

\* Pipeline.unload: the callbacks it invokes
unload(pl) == IF "on_unload" \in pl.hooks THEN <<"on_unload">> ELSE <<>>

ListFields == {"pipeline_order", "active_pipelines", "to_unload", "to_load"}

\* runtime.f = value: a field that shares its list with another field gets a
\* list of its own, the other field keeps the old one
SetField(rt, f, value) ==
    IF \E g \in ListFields \ {f} : rt.runtime[g] = rt.runtime[f]
    THEN [runtime |-> [rt.runtime EXCEPT ![f] = Len(rt.lists) + 1],
          lists |-> Append(rt.lists, value)]
    ELSE [runtime |-> rt.runtime, lists |-> [rt.lists EXCEPT ![rt.runtime[f]] = value]]

\* what the session has called on each pipeline: `state` follows the calls of
\* load and unload, `cb` is the last lifecycle callback that ran
NewLife ==
    [started |-> FALSE, state |-> [k \in Keys |-> "new"], cb |-> [k \in Keys |-> "none"],
     step |-> "none", processed |-> <<>>]

RECURSIVE CallEach(_, _, _, _)
\* for k in keys: pipelines[k].load() (or unload())
CallEach(keys, method, p, mon) ==
    IF keys = <<>> THEN mon
    ELSE LET k == Head(keys)
             called == IF method = "load" THEN load(p.tab[k]) ELSE unload(p.tab[k])
         IN CallEach(Tail(keys), method, p,
                     [mon EXCEPT !.state[k] = IF method = "load" THEN "loaded" ELSE "unloaded",
                                 !.cb[k] = IF called = <<>> THEN @ ELSE called[1]])

\* the settings files a session may start from
LifeFiles ==
    {NoFile} \cup
    {ObjectFile(TRUE, <<>>, TRUE, a, EmptyDict) :
        a \in {<<>>, <<"B.py">>, <<"A.py", "C.py">>, <<"C.py", "B.py">>, <<"D.py", "D.py">>}}

InitLife ==
    /\ pipelines \in {LoadedPipelines(ks) : ks \in InjSeqs(Keys, MaxChain)}
    /\ file \in LifeFiles
    /\ frameIn = NoFrameIn
    /\ InitCore
    /\ codec = NoCodec
    /\ loader = NoLoader
    /\ life = NewLife
    /\ gui = NoGui

Active == lists[runtime.active_pipelines]
ToLoad == lists[runtime.to_load]
ToUnload == lists[runtime.to_unload]

\* the session starts: load_settings gives the runtime data
StartSession ==
    /\ ~life.started
    /\ LET r == load_settings(pipelines, file)
       IN /\ r.result.status = "returned"
          /\ pipelines' = r.pipelines
          /\ runtime' = r.rt.runtime
          /\ lists' = r.rt.lists
          /\ result' = r.result
          /\ lastOps' = PushOp(lastOps, "load")
    /\ life' = [life EXCEPT !.started = TRUE, !.step = "start"]
    /\ UNCHANGED <<file, saved, frameIn, frameRes, lastChange, events, codec, loader, gui>>

\* the deltas are consumed: unload() on every key of to_unload, load() on every
\* key of to_load, then both fields are cleared
Drain ==
    /\ life.started
    /\ ToLoad # <<>> \/ ToUnload # <<>>
    /\ LET rt1 == SetField([runtime |-> runtime, lists |-> lists], "to_unload", <<>>)
           rt2 == SetField(rt1, "to_load", <<>>)
           mon == CallEach(ToLoad, "load", pipelines,
                           CallEach(ToUnload, "unload", pipelines, life))
       IN /\ runtime' = rt2.runtime
          /\ lists' = rt2.lists
          /\ life' = [mon EXCEPT !.step = "drain", !.processed = <<>>]
    /\ UNCHANGED <<pipelines, file, result, saved, lastOps, frameIn, frameRes,
                   lastChange, events, codec, loader, gui>>

\* a frame is admitted once the deltas are drained: every active pipeline
\* processes it, in the order of active_pipelines
Frame ==
    /\ life.started
    /\ ToLoad = <<>> /\ ToUnload = <<>>
    /\ LET r == RunChain(Active, [i \in 1..Len(Active) |-> "keep"], 1,
                         [shape |-> <<1, 1, 3>>, data |-> <<>>],
                         [invoked |-> <<>>, outs |-> <<>>])
       IN life' = [life EXCEPT !.step = "frame", !.processed = r.invoked]
    /\ UNCHANGED <<pipelines, file, runtime, lists, result, saved, lastOps, frameIn,
                   frameRes, lastChange, events, codec, loader, gui>>

Pending(k) == k \in Range(ToLoad) \cup Range(ToUnload)

\* the user activates a pipeline: it joins active_pipelines and to_load
Activate ==
    /\ life.started
    /\ \E k \in Range(pipelines.keys) :
          /\ k \notin Range(Active) /\ ~Pending(k)
          /\ LET rt1 == SetField([runtime |-> runtime, lists |-> lists],
                                 "active_pipelines", Append(Active, k))
                 rt2 == SetField(rt1, "to_load", Append(ToLoad, k))
             IN runtime' = rt2.runtime /\ lists' = rt2.lists
    /\ life' = [life EXCEPT !.step = "activate", !.processed = <<>>]
    /\ UNCHANGED <<pipelines, file, result, saved, lastOps, frameIn, frameRes,
                   lastChange, events, codec, loader, gui>>

\* the user deactivates a pipeline: it leaves active_pipelines and joins to_unload
Deactivate ==
    /\ life.started
    /\ \E k \in Range(Active) :
          /\ ~Pending(k)
          /\ LET rt1 == SetField([runtime |-> runtime, lists |-> lists],
                                 "active_pipelines", SelectSeq(Active, LAMBDA q : q # k))
                 rt2 == SetField(rt1, "to_unload", Append(ToUnload, k))
             IN runtime' = rt2.runtime /\ lists' = rt2.lists
    /\ life' = [life EXCEPT !.step = "deactivate", !.processed = <<>>]
    /\ UNCHANGED <<pipelines, file, result, saved, lastOps, frameIn, frameRes,
                   lastChange, events, codec, loader, gui>>

NextLife == StartSession \/ Drain \/ Frame \/ Activate \/ Deactivate

SpecLife == InitLife /\ [][NextLife]_vars

\* C16: in a session that starts from the runtime data of load_settings and
\* drains to_load and to_unload before each frame, every pipeline a frame is
\* processed by has had load() called, with its on_load callback run if it
\* defines one, and has not had unload() called since: on_load precedes the
\* first on_frame_process and on_unload follows the last.
C16_LoadBeforeProcess ==
    (life.started /\ life.step = "frame") =>
        \A i \in 1..Len(life.processed) :
            LET k == life.processed[i]
            IN /\ life.state[k] = "loaded"
               /\ "on_load" \in pipelines.tab[k].hooks => life.cb[k] = "on_load"

C16_Witness ==
    /\ life.started /\ life.step = "frame"
    /\ result.was_persisted
    /\ life.processed = <<"C.py", "B.py">>
    /\ life.cb["B.py"] = "on_load" /\ life.cb["C.py"] = "on_load"
    /\ life.state["B.py"] = "loaded"

----------------------------------------------------------------------------
(* The same session working on the returned list objects themselves:       *)
(* list.clear(), list.pop(0), list.append(k) and list.remove(k) on the     *)
(* fields of the PipelineRuntimeData that load_settings returned.          *)

\* s.remove(k): the first occurrence goes
RemoveFirst(s, k) ==
    LET i == CHOOSE j \in 1..Len(s) : s[j] = k /\ \A m \in 1..(j - 1) : s[m] # k
    IN SubSeq(s, 1, i - 1) \o SubSeq(s, i + 1, Len(s))

\* the to_load delta is consumed in place: load() on its keys, then
\* runtime.to_load.clear(), or load() on its first key, then runtime.to_load.pop(0)
ConsumeToLoad ==
    /\ life.started
    /\ ToLoad # <<>>
    /\ \/ /\ lists' = [lists EXCEPT ![runtime.to_load] = <<>>]
          /\ life' = [CallEach(ToLoad, "load", pipelines, life) EXCEPT !.step = "consume"]
       \/ /\ lists' = [lists EXCEPT ![runtime.to_load] = Tail(@)]
          /\ life' = [CallEach(<<Head(ToLoad)>>, "load", pipelines, life)
                         EXCEPT !.step = "consume"]
    /\ UNCHANGED <<pipelines, file, runtime, result, saved, lastOps, frameIn, frameRes,
                   lastChange, events, codec, loader, gui>>

\* active_pipelines is changed in place: runtime.active_pipelines.append(k) for
\* a loaded key that is not active, runtime.active_pipelines.remove(k) for an
\* active one
ChangeActive ==
    /\ life.started
    /\ \/ \E k \in Range(pipelines.keys) \ Range(Active) :
             lists' = [lists EXCEPT ![runtime.active_pipelines] = Append(@, k)]
       \/ \E k \in Range(Active) :
             lists' = [lists EXCEPT ![runtime.active_pipelines] = RemoveFirst(@, k)]
    /\ life' = [life EXCEPT !.step = "change"]
    /\ UNCHANGED <<pipelines, file, runtime, result, saved, lastOps, frameIn, frameRes,
                   lastChange, events, codec, loader, gui>>

NextAlias == StartSession \/ ConsumeToLoad \/ ChangeActive

SpecAlias == InitLife /\ [][NextAlias]_vars

\* C18: in the runtime data load_settings returns, to_load and active_pipelines
\* are independent sequences: consuming the to_load delta (removing or clearing
\* its entries) leaves active_pipelines as it was, and a later change of
\* active_pipelines leaves to_load as it was.
C18_ToLoadIndependent ==
    [][/\ ConsumeToLoad => Active' = Active
       /\ ChangeActive => ToLoad' = ToLoad]_vars

----------------------------------------------------------------------------
(* The session list of the GUI event loop (src/PyHook/gui/app.py,          *)
(* gui_main). A session is [pid, auto, skip]: pid.value, _is_auto and      *)
(* pids_to_skip; an automatic session looks for its process while its      *)
(* pid.value is -1. last_pid is shared with the UI worker thread, which    *)
(* clears it without a lock. The runs start from session lists the event   *)
(* loop reaches (StartLists) and take up to MaxSteps steps, every event    *)
(* with every input at every step.                                        *)

MAX_SESSIONS == 15

\* last_pid = None; no numeric text gives it (a PID is 0 or more, -1 is the
\* pid.value of an automatic session without a process)
NonePid == -2

\* the PIDs of the processes
Pids == 0..(NumPids - 1)

HeldPids(sessions) == {sessions[i].pid : i \in 1..Len(sessions)}

\* Session(process_info) and Session(None, pids_to_skip)
ManualSession(pid) == [pid |-> pid, auto |-> FALSE, skip |-> <<>>]

AutoSession(skip) == [pid |-> -1, auto |-> TRUE, skip |-> skip]

\* [int(session.pid.value) for session in sessions]
PidsOf(sessions) == [i \in 1..Len(sessions) |-> sessions[i].pid]

\* the list after INJECT for the processes 0 .. n - 1, one after the other
Injected(n) == [i \in 1..n |-> ManualSession(i - 1)]

\* session lists the event loop reaches from the empty list: n sessions made
\* by INJECT, or n - 1 of them and one automatic session made by INJECT_AUTO
\* before the first or after the last of them, for n = 0, 1, _MAX_SESSIONS - 1
\* and _MAX_SESSIONS; and the list of one session made by an INJECT whose call
\* of from_pid found last_pid cleared
StartLists ==
    LET lens == {0, 1, MAX_SESSIONS - 1, MAX_SESSIONS}
    IN {Injected(n) : n \in lens}
          \cup {Append(Injected(n - 1), AutoSession(PidsOf(Injected(n - 1)))) :
                   n \in lens \ {0}}
          \cup {<<AutoSession(<<>>)>> \o Injected(n - 1) : n \in lens \ {0}}
          \cup {<<ManualSession(NonePid)>>}

Holders(sessions, pid) == {i \in 1..Len(sessions) : sessions[i].pid = pid}

NoEvent == [event |-> "", held |-> FALSE, pid |-> NonePid, before |-> 0, holders |-> 0]

InitGui ==
    /\ pipelines = LoadedPipelines(<<>>)
    /\ file = NoFile
    /\ frameIn = NoFrameIn
    /\ InitCore
    /\ codec = NoCodec
    /\ loader = NoLoader
    /\ life = NoLife
    /\ \E sessions \in StartLists :
          gui = [started |-> TRUE, sessions |-> sessions, last_pid |-> NonePid,
                 selected |-> 0, steps |-> 0, exc |-> "", last |-> NoEvent]

\* while running (line 438), no exception has ended the loop; the runs are
\* followed for MaxSteps steps
Running == gui.started /\ gui.exc = "" /\ gui.steps < MaxSteps

Rest == <<pipelines, file, runtime, lists, result, saved, lastOps, frameIn, frameRes,
          lastChange, events, codec, loader, life>>

\* one more step taken; an event other than INJECT leaves nothing for the
\* properties
step(g) == [g EXCEPT !.steps = @ + 1, !.last = NoEvent]

\* what the INJECT handler leaves behind for the properties when a session held
\* the PID it found in last_pid as the event came: that PID, the number of
\* sessions that held it and the length of the list then
Seen(g, pid) ==
    IF pid # NonePid /\ pid \in HeldPids(g.sessions)
    THEN [event |-> "INJECT", held |-> TRUE, pid |-> pid, before |-> Len(g.sessions),
          holders |-> Cardinality(Holders(g.sessions, pid))]
    ELSE NoEvent

\* the texts of the process list, by what lines 444-448 make of them: the text
\* of a process (numeric, the PID), a text that is not numeric, and a text that
\* str.isnumeric accepts and int refuses (a superscript digit, a fraction)
Texts ==
    {[kind |-> "pid", pid |-> p] : p \in Pids}
       \cup {[kind |-> "text", pid |-> NonePid], [kind |-> "numeral", pid |-> NonePid]}

\* event PROCESS_LIST, lines 442-448: last_pid = int(pid_string) for a numeric
\* text (ValueError ends the event loop when int refuses it), None otherwise
select_process(g, text) ==
    IF text.kind = "numeral" THEN [step(g) EXCEPT !.exc = "ValueError"]
    ELSE [step(g) EXCEPT !.last_pid = text.pid]

SelectProcess ==
    /\ Running
    /\ \E text \in Texts : gui' = select_process(gui, text)
    /\ UNCHANGED Rest

\* events INJECT_CLEAR and PROCESS_RELOAD, and the filter check of _update_ui
ClearProcess ==
    /\ Running
    /\ gui' = [step(gui) EXCEPT !.last_pid = NonePid]
    /\ UNCHANGED Rest

\* The INJECT handler reads last_pid once at line 456, once at every
\* comparison of the generator of line 459 (one per session, in the order of
\* the list) and once for the call of line 466: Len(sessions) + 2 reads. The UI
\* worker thread _update_ui writes last_pid = None (line 421) without a lock,
\* at any moment. WriteAt is the set of the places of that write: before read
\* `at` (Len(sessions) + 3: after the last read). A write before the first read
\* is ClearProcess before the event, and a write over None changes no read.
WriteAt(g) ==
    IF g.last_pid = NonePid THEN {Len(g.sessions) + 3} ELSE 2..(Len(g.sessions) + 3)

\* what read k of the handler finds in last_pid when the write lands before
\* read `at`
read(g, at, k) == IF k < at THEN g.last_pid ELSE NonePid

\* any(session.pid.value == last_pid for session in sessions), line 459, with
\* last_pid read at each comparison
any_holds(g, at) ==
    \E i \in 1..Len(g.sessions) : g.sessions[i].pid = read(g, at, i + 1)

\* what the reads after the first one give the handler: whether line 459 finds
\* a session, and the PID line 466 passes to from_pid
Reads(g) ==
    {<<any_holds(g, at), read(g, at, Len(g.sessions) + 2)>> : at \in WriteAt(g)}

\* ProcessInfo.from_pid(pid) as gui_main uses it: None (here <<>>) when the
\* process is gone, else the process the session is made for, the PID it was
\* asked for
from_pid(pid, alive) == IF alive THEN <<pid>> ELSE <<>>

\* an INJECT handler without the check of the list length
inject_no_limit(g, r, alive) ==
    LET after == [g EXCEPT !.steps = @ + 1, !.last = Seen(g, g.last_pid),
                           !.last_pid = r[2]]
    IN IF g.last_pid = NonePid THEN after
       ELSE IF r[1]
       THEN after
       ELSE LET process_info == from_pid(r[2], alive)
            IN IF process_info = <<>> THEN after
               ELSE [after EXCEPT
                       !.sessions = Append(@, ManualSession(process_info[1])),
                       !.selected = Len(g.sessions) + 1]

\* the INJECT handler, lines 455-476, with r from Reads(g): nothing without a
\* selected process (line 456 reads g.last_pid), nothing when a comparison of
\* line 459 finds a session (r[1]), nothing when the list is full, nothing when
\* the process is gone (from_pid of r[2] is None); otherwise a session for the
\* process is appended and selected. last_pid is left as the last read found it
inject(g, r, alive) ==
    LET after == [g EXCEPT !.steps = @ + 1, !.last = Seen(g, g.last_pid),
                           !.last_pid = r[2]]
    IN IF g.last_pid = NonePid THEN after
       ELSE IF r[1]
       THEN after
       ELSE IF Len(g.sessions) = MAX_SESSIONS
       THEN after
       ELSE LET process_info == from_pid(r[2], alive)
            IN IF process_info = <<>> THEN after
               ELSE [after EXCEPT
                       !.sessions = Append(@, ManualSession(process_info[1])),
                       !.selected = Len(g.sessions) + 1]

\* event INJECT, with the write of the UI worker at any place of the handler
\* and either answer of from_pid
Inject ==
    /\ Running
    /\ \E r \in Reads(gui), alive \in BOOLEAN : gui' = inject(gui, r, alive)
    /\ UNCHANGED Rest

\* the indices of the sessions with pid.value = -1
AutoSessions(sessions) == SelectSeq([i \in 1..Len(sessions) |-> i],
                                    LAMBDA i : sessions[i].pid = -1)

\* the INJECT_AUTO handler, lines 477-495: an automatic session that is running
\* is left alone, one that stopped is selected and restarted; without one a new
\* automatic session is appended and selected unless the list is full;
\* int(session.pid.value) raises TypeError for a session whose PID is None and
\* ends the event loop
inject_auto(g, is_running) ==
    LET autos == AutoSessions(g.sessions)
    IN IF autos # <<>>
       THEN IF is_running THEN step(g) ELSE [step(g) EXCEPT !.selected = autos[1]]
       ELSE IF Len(g.sessions) = MAX_SESSIONS THEN step(g)
       ELSE IF NonePid \in HeldPids(g.sessions)
       THEN [step(g) EXCEPT !.exc = "TypeError"]
       ELSE [step(g) EXCEPT
               !.sessions = Append(@, AutoSession(PidsOf(g.sessions))),
               !.selected = Len(g.sessions) + 1]

InjectAuto ==
    /\ Running
    /\ \E is_running \in BOOLEAN : gui' = inject_auto(gui, is_running)
    /\ UNCHANGED Rest

\* event SESSION_<i>, lines 496-498: the i-th session is selected
SelectSession ==
    /\ Running
    /\ \E i \in 1..Len(gui.sessions) : gui' = [step(gui) EXCEPT !.selected = i]
    /\ UNCHANGED Rest

\* event SESSION_CLOSE_OVERVIEW_BUTTON
CloseOverview ==
    /\ Running
    /\ gui.selected # 0
    /\ gui' = [step(gui) EXCEPT !.selected = 0]
    /\ UNCHANGED Rest

\* selected_session is a session that is no longer in the list
KilledSession == -1

RECURSIVE ForgetPid(_, _, _)
\* for session in sessions: if session._is_auto:
\*     session.pids_to_skip.remove(int(selected_session.pid.value))
\* with pids the values the reads of selected_session.pid.value find, one per
\* automatic session; int(None) raises TypeError, remove raises ValueError when
\* the pid is not in the list
ForgetPid(sessions, i, pids) ==
    IF i > Len(sessions) THEN [sessions |-> sessions, exc |-> ""]
    ELSE IF ~sessions[i].auto THEN ForgetPid(sessions, i + 1, pids)
    ELSE IF Head(pids) = NonePid THEN [sessions |-> sessions, exc |-> "TypeError"]
    ELSE IF \A j \in 1..Len(sessions[i].skip) : sessions[i].skip[j] # Head(pids)
    THEN [sessions |-> sessions, exc |-> "ValueError"]
    ELSE LET skip == sessions[i].skip
             at == CHOOSE j \in 1..Len(skip) :
                      skip[j] = Head(pids) /\ \A m \in 1..(j - 1) : skip[m] # Head(pids)
         IN ForgetPid([sessions EXCEPT ![i].skip =
                          SubSeq(skip, 1, at - 1) \o SubSeq(skip, at + 1, Len(skip))],
                      i + 1, Tail(pids))

\* The SESSION_KILL_BUTTON handler, lines 499-514: nothing when the popup is
\* answered No; else every session whose PID is that of the selected one leaves
\* the list (line 507), the automatic sessions that stay forget that PID (line
\* 512), the selection is dropped (line 513). A TypeError or ValueError of line
\* 512 ends the event loop with the list shortened and selected_session still
\* the killed session. The handler reads selected_session.pid.value at every
\* comparison of line 507 and for every automatic session of line 512, and the
\* process of an automatic session writes its pid.value (Attach) at any moment:
\* the reads of the selected session's pid.value before read `at` find what it
\* was, the reads from it on find `now`. The reads are numbered in the order of
\* the handler: the comparison of session i reads it on its right side, and for
\* the selected session itself on its left side just before; then line 512.
\* Without a write inside the handler `at` is past the last read.
kill(g, confirmed, at, now) ==
    IF ~confirmed THEN step(g)
    ELSE LET n == Len(g.sessions)
             x == g.selected
             was == g.sessions[x].pid
             sel(k) == IF k < at THEN was ELSE now
             left(i) == IF i = x THEN sel(x) ELSE g.sessions[i].pid
             right(i) == sel(IF i < x THEN i ELSE i + 1)
             stay == SelectSeq([i \in 1..n |-> i], LAMBDA i : left(i) # right(i))
             kept == [j \in 1..Len(stay) |->
                         IF stay[j] = x THEN [g.sessions[x] EXCEPT !.pid = now]
                         ELSE g.sessions[stay[j]]]
             r == ForgetPid(kept, 1, [j \in 1..n |-> sel(n + 1 + j)])
             still == {j \in 1..Len(stay) : stay[j] = x}
         IN [step(g) EXCEPT
               !.sessions = r.sessions,
               !.selected = IF r.exc = "" THEN 0
                            ELSE IF still = {} THEN KilledSession
                            ELSE CHOOSE j \in still : TRUE,
               !.exc = r.exc]

\* event SESSION_KILL_BUTTON; the button belongs to the overview of the
\* selected session (line 173). Only a session with pid.value = -1 has a
\* process that writes its pid.value, a PID that is not in its pids_to_skip
Kill ==
    /\ Running
    /\ gui.selected # 0
    /\ LET n == Len(gui.sessions)
           x == gui.sessions[gui.selected]
       IN \E confirmed \in BOOLEAN :
             \/ gui' = kill(gui, confirmed, 2 * n + 2, x.pid)
             \/ /\ x.pid = -1
                /\ \E at \in 2..(2 * n + 1) :
                   \E now \in Pids \ {x.skip[j] : j \in 1..Len(x.skip)} :
                      gui' = kill(gui, confirmed, at, now)
    /\ UNCHANGED Rest

\* the process of an automatic session finds its process: pid.value, shared
\* with the event loop, goes from -1 to the PID of a process that is not in
\* pids_to_skip
Attach ==
    /\ Running
    /\ \E i \in 1..Len(gui.sessions) :
          /\ gui.sessions[i].pid = -1
          /\ \E p \in Pids \ {gui.sessions[i].skip[j] : j \in 1..Len(gui.sessions[i].skip)} :
                gui' = [step(gui) EXCEPT !.sessions[i].pid = p]
    /\ UNCHANGED Rest

NextGui ==
    SelectProcess \/ ClearProcess \/ Inject \/ InjectAuto \/ SelectSession
       \/ CloseOverview \/ Kill \/ Attach

SpecGui == InitGui /\ [][NextGui]_vars

====
